---- MODULE Spec2Model ----
(***************************************************************************)
(* Model of src/python/additional_analysis.py (class AdditionalAnalysis):  *)
(* the role classification (classify_roles), the community analyses        *)
(* (analyze_community_cohesion, analyze_community_function) and the batch  *)
(* driver run_all.                                                         *)
(*                                                                         *)
(* Tables (pandas DataFrames) are sequences of records, one record per     *)
(* row, in row order.  Metric values are small integers; the quartile      *)
(* thresholds are kept multiplied by 4, which makes the linear             *)
(* interpolation at p = 1/4 and p = 3/4 exact integer arithmetic (the      *)
(* values used are exactly representable, so the code's float arithmetic   *)
(* gives the same comparisons).  The columns Label and ClosenessCentrality *)
(* of the centrality table are carried through untouched by the code and   *)
(* are left out of the rows.                                               *)
(***************************************************************************)
EXTENDS Integers, Sequences, FiniteSets, TLC

VARIABLES
    centrality,        \* self.centrality: rows of centrality_metrics.csv
    centrality_cols,   \* the columns centrality_metrics.csv has
    bridging,          \* self.bridging
    bridging_cols,     \* the columns of self.bridging
    bridging_exists,   \* whether bridging_developers.csv was on disk
    communities,       \* rows of community_assignments.csv
    communities_cols,  \* the columns community_assignments.csv has
    interactions,      \* self.interactions: the columns Source, Target and Type
    interactions_cols, \* the columns self.interactions has
    merged,            \* local `merged` of the last classify_roles call, before Role is added
    quartiles,         \* locals q1_degree .. q3_betweenness of the last classify_roles call
    role_data,         \* the table the last classify_roles call returned
    prev_role_data,    \* the table the classify_roles call before that returned
    runs,              \* number of classify_roles calls made
    printed,           \* the messages load_data and classify_roles have printed
    table8,            \* table returned (and saved) by table_role_classification
    stats_df,          \* table returned by analyze_community_cohesion
    table11,           \* rows of table11_community_cohesion.csv as written
    ratios,            \* local `ratios` of analyze_community_cohesion: the bar lengths
                       \* of the ratio panel of figure 15
    func_df,           \* table returned by analyze_community_function
    csv_content,       \* fix_csv_decimals.py: the characters of the file given to
                       \* fix_decimal_separators
    csv_backup,        \* the characters of its .backup file
    linesep,           \* os.linesep of the platform
    called,            \* names of the methods that have been called and returned
    pc,                \* run_all: 0 = not started, k = about to run step k, Done = finished
    error,             \* the exception that ended the last call: "none" when it returned,
                       \* "KeyError" for a column missing from an input table,
                       \* "KeyError (empty frame)" for a sort of a frame without columns
    written            \* names of the output files written so far

vars == << centrality, centrality_cols, bridging, bridging_cols, bridging_exists,
           communities, communities_cols, interactions, interactions_cols, merged,
           quartiles,
           role_data,
           prev_role_data, runs, printed, table8, stats_df, table11, ratios, func_df, csv_content,
           csv_backup, linesep, called, pc, error, written >>

----------------------------------------------------------------------------
(* Bounds of the model *)

MaxRows == 3

MaxBridging == 2

MaxRuns == 2

MaxInteractions == 2

MaxChars == 5

(* Value domains of the inputs *)

DegreeValues == 0..1

PageRankValues == 0..2

BetweennessValues == 0..1

Vertices == {1, 2, 3}

BridgingVertices == {1, 2}

BridgingStrengths == {-1, 0, 1}

Labels == {"A", "B", "C"}

CommunityIds == {1, 2}

CanonicalTypes ==
    << "COMMENT_ISSUE", "COMMENT_PR", "ISSUE_CLOSE", "PR_REVIEW", "PR_APPROVAL", "PR_MERGE" >>

InteractionTypes == {"COMMENT_ISSUE", "COMMENT_PR", "OTHER"}

----------------------------------------------------------------------------
(* pandas pieces used by classify_roles *)

\* The missing value (NaN) pandas puts where a left join finds no partner and
\* returns as the quantile of an empty column; an integer outside every value domain.
NaN == -99

\* Comparisons with NaN are False in pandas/numpy.
GT(a, b) == a # NaN /\ b # NaN /\ a > b

LT(a, b) == a # NaN /\ b # NaN /\ a < b

Range(s) == {s[i] : i \in DOMAIN s}

Column(df, col) == [i \in DOMAIN df |-> df[i][col]]

\* DataFrame.empty: no rows (a table loaded from a file always has its columns).
empty(df) == Len(df) = 0

\* k-th smallest (k = 1..n) of the values of a column
KthSmallest(vals, k) ==
    CHOOSE v \in Range(vals) :
        /\ Cardinality({i \in DOMAIN vals : vals[i] < v}) < k
        /\ k <= Cardinality({i \in DOMAIN vals : vals[i] <= v})

quantile_lower(vals, num) ==
    IF Len(vals) = 0 THEN NaN
    ELSE 4 * KthSmallest(vals, (((Len(vals) - 1) * num) \div 4) + 1)

\* Series.quantile(num/4), default interpolation 'linear', result multiplied by 4:
\* h = (n-1)*num/4, value x[floor h] + (h - floor h) * (x[ceil h] - x[floor h]).
quantile(vals, num) ==
    IF Len(vals) = 0 THEN NaN
    ELSE LET h4  == (Len(vals) - 1) * num
             lo  == h4 \div 4
             fr  == h4 % 4
             hi  == IF fr = 0 THEN lo ELSE lo + 1
             xlo == KthSmallest(vals, lo + 1)
             xhi == KthSmallest(vals, hi + 1)
         IN  4 * xlo + fr * (xhi - xlo)

WithBridging(row, bs) ==
    [Vertex |-> row.Vertex, DegreeCentrality |-> row.DegreeCentrality,
     BetweennessCentrality |-> row.BetweennessCentrality, PageRank |-> row.PageRank,
     BridgingStrength |-> bs]

WithRole(row, role) ==
    [Vertex |-> row.Vertex, DegreeCentrality |-> row.DegreeCentrality,
     BetweennessCentrality |-> row.BetweennessCentrality, PageRank |-> row.PageRank,
     BridgingStrength |-> row.BridgingStrength, Role |-> role]

WithoutBridging(row) ==
    [Vertex |-> row.Vertex, DegreeCentrality |-> row.DegreeCentrality,
     BetweennessCentrality |-> row.BetweennessCentrality, PageRank |-> row.PageRank]

RECURSIVE Flatten(_)
Flatten(ss) == IF Len(ss) = 0 THEN << >> ELSE Head(ss) \o Flatten(Tail(ss))

\* The rows one left row contributes to an inner join: one per right row with its key.
MatchesOf(l, right) ==
    LET m == SelectSeq(right, LAMBDA r : r.Vertex = l.Vertex)
    IN  [j \in DOMAIN m |-> WithBridging(l, m[j].BridgingStrength)]

inner_merge(left, right) == Flatten([i \in DOMAIN left |-> MatchesOf(left[i], right)])

\* DataFrame.merge(right[['Vertex','BridgingStrength']], on='Vertex', how='left'):
\* left rows in order; each left row once per right row with the same key, in the
\* right table's order; a left row without partner once, with NaN.
left_merge(left, right) ==
    Flatten([i \in DOMAIN left |->
                IF MatchesOf(left[i], right) = << >>
                THEN << WithBridging(left[i], NaN) >>
                ELSE MatchesOf(left[i], right)])

fillna_kept(v, d) == v

\* Series.fillna(d)
fillna(v, d) == IF v = NaN THEN d ELSE v

\* lines 346-358: the merged table
merge_bridging(cent, brid) ==
    LET m == IF ~empty(brid)
             THEN left_merge(cent, brid)
             ELSE [i \in DOMAIN cent |-> WithBridging(cent[i], 0)]
    IN  [i \in DOMAIN m |-> WithBridging(m[i], fillna(m[i].BridgingStrength, 0))]

\* lines 360-367: the five thresholds, each multiplied by 4
thresholds(m) ==
    [q1_degree      |-> quantile(Column(m, "DegreeCentrality"), 1),
     q3_degree      |-> quantile(Column(m, "DegreeCentrality"), 3),
     q1_pr          |-> quantile(Column(m, "PageRank"), 1),
     q3_pr          |-> quantile(Column(m, "PageRank"), 3),
     q3_betweenness |-> quantile(Column(m, "BetweennessCentrality"), 3)]

IsConnector(row, q) ==
    GT(4 * row.BetweennessCentrality, q.q3_betweenness) \/ row.BridgingStrength > 0

IsCore(row, q) ==
    GT(4 * row.DegreeCentrality, q.q3_degree) /\ GT(4 * row.PageRank, q.q3_pr)

IsPeripheral(row, q) ==
    LT(4 * row.DegreeCentrality, q.q1_degree) /\ LT(4 * row.PageRank, q.q1_pr)

classify_noelse(row, q) ==
    IF IsConnector(row, q) THEN "Connector"
    ELSE IF IsCore(row, q) THEN "Core"
    ELSE IF IsPeripheral(row, q) THEN "Peripheral"
    ELSE "None"

classify_corefirst(row, q) ==
    IF IsCore(row, q) THEN "Core"
    ELSE IF IsConnector(row, q) THEN "Connector"
    ELSE IF IsPeripheral(row, q) THEN "Peripheral"
    ELSE "Intermediate"

classify_ge(row, q) ==
    IF 4 * row.BetweennessCentrality >= q.q3_betweenness \/ row.BridgingStrength > 0
    THEN "Connector"
    ELSE IF IsCore(row, q) THEN "Core"
    ELSE IF IsPeripheral(row, q) THEN "Peripheral"
    ELSE "Intermediate"

classify_le(row, q) ==
    IF IsConnector(row, q) THEN "Connector"
    ELSE IF IsCore(row, q) THEN "Core"
    ELSE IF 4 * row.DegreeCentrality <= q.q1_degree /\ 4 * row.PageRank <= q.q1_pr
    THEN "Peripheral"
    ELSE "Intermediate"

\* lines 370-388: the inner function classify(row), q being the thresholds of
\* the enclosing scope
classify(row, q) ==
    IF IsConnector(row, q) THEN "Connector"
    ELSE IF IsCore(row, q) THEN "Core"
    ELSE IF IsPeripheral(row, q) THEN "Peripheral"
    ELSE "Intermediate"

\* line 390: merged['Role'] = merged.apply(classify, axis=1).  On a table without
\* rows apply returns an empty Series and the assignment yields the empty table.
apply_classify(m, th) == [i \in DOMAIN m |-> WithRole(m[i], classify(m[i], th))]

\* lines 351-367: the KeyError a missing column raises, "none" when every column
\* the call reads is there
classify_roles_error(cent_cols, brid, brid_cols) ==
    IF /\ ~empty(brid)
       /\ ~({"Vertex", "BridgingStrength"} \subseteq brid_cols /\ "Vertex" \in cent_cols)
    THEN "KeyError"
    ELSE IF ~({"DegreeCentrality", "PageRank", "BetweennessCentrality"} \subseteq cent_cols)
    THEN "KeyError"
    ELSE "none"

self_centrality_rebound(cent, m) == [i \in DOMAIN m |-> WithoutBridging(m[i])]

\* line 347: merged = self.centrality.copy(); every later write goes to the copy,
\* so self.centrality after the call is self.centrality before it
self_centrality_after(cent, m) == cent

self_centrality_cols_shared(cols) == cols \cup {"BridgingStrength", "Role"}

\* lines 347, 357, 388: BridgingStrength and Role are assigned to the copy, so the
\* columns of self.centrality after the call are its columns before it
self_centrality_cols_after(cols) == cols

\* lines 350-352: self.bridging[['Vertex', 'BridgingStrength']] is a new frame and
\* merge leaves its operands alone, so self.bridging is not written
self_bridging_after(brid) == brid

----------------------------------------------------------------------------
(* The temporal steps, lines 85-340 *)

assign_rows_valid(rows, adds) ==
    IF adds = {} THEN rows ELSE SubSeq(rows, 1, Len(rows) - 1)

\* lines 90, 171-172, 205: self.interactions[name] = ... assigns a column in
\* place; the rows and their Source, Target and Type stay
assign_rows(rows, adds) == rows

\* the columns after the assignment of the columns `adds`
assign_columns(cols, adds) == cols \cup adds

----------------------------------------------------------------------------
(* table_role_classification, lines 459-482 *)

\* the orders in which n rows can be arranged
Orderings(n) == {p \in [1..n -> 1..n] : \A i, j \in 1..n : i # j => p[i] # p[j]}

\* line 469
role_order(role) ==
    CASE role = "Core" -> 0
      [] role = "Connector" -> 1
      [] role = "Intermediate" -> 2
      [] role = "Peripheral" -> 3

sort_role_pagerank_asc(rows) ==
    LET before(a, b) ==
            \/ role_order(a.Role) < role_order(b.Role)
            \/ role_order(a.Role) = role_order(b.Role) /\ a.PageRank < b.PageRank
        p == CHOOSE q \in Orderings(Len(rows)) :
                 \A i, j \in 1..Len(rows) :
                     i < j => \/ before(rows[q[i]], rows[q[j]])
                              \/ ~before(rows[q[j]], rows[q[i]]) /\ q[i] < q[j]
    IN  [i \in DOMAIN rows |-> rows[p[i]]]

\* lines 470-472: sort_values(['RoleOrder', 'PageRank'], ascending=[True, False]);
\* a sort on several columns is a stable lexsort, so rows with equal keys keep
\* their order
sort_role_pagerank(rows) ==
    LET before(a, b) ==
            \/ role_order(a.Role) < role_order(b.Role)
            \/ role_order(a.Role) = role_order(b.Role) /\ a.PageRank > b.PageRank
        p == CHOOSE q \in Orderings(Len(rows)) :
                 \A i, j \in 1..Len(rows) :
                     i < j => \/ before(rows[q[i]], rows[q[j]])
                              \/ ~before(rows[q[j]], rows[q[i]]) /\ q[i] < q[j]
    IN  [i \in DOMAIN rows |-> rows[p[i]]]

\* lines 474-476: the columns under their new names
renamed(row) ==
    [c \in {"Vertex", "Papel", "Degree", "Betweenness", "PageRank", "Bridging Strength"} |->
        CASE c = "Vertex" -> row.Vertex
          [] c = "Papel" -> row.Role
          [] c = "Degree" -> row.DegreeCentrality
          [] c = "Betweenness" -> row.BetweennessCentrality
          [] c = "PageRank" -> row.PageRank
          [] c = "Bridging Strength" -> row.BridgingStrength]

\* lines 463-482
table_role_classification(rd) ==
    LET table == sort_role_pagerank(rd)
    IN  [i \in DOMAIN table |-> renamed(table[i])]

\* lines 464-466: KeyError when a selected column is not in the centrality file
\* (Role and BridgingStrength are added by classify_roles)
table_role_classification_error(cent_cols) ==
    IF {"Vertex", "Label", "DegreeCentrality", "BetweennessCentrality",
        "ClosenessCentrality", "PageRank"} \subseteq cent_cols
    THEN "none" ELSE "KeyError"

----------------------------------------------------------------------------
(* load_data, lines 44-81 *)

\* lines 45, 57, 74, 80-81: the messages load_data prints
load_data_prints(exists) ==
    {"Carregando dados", "Type corrigido", "interacoes carregadas",
     "desenvolvedores carregados"}
    \cup (IF exists THEN {} ELSE {"AVISO: bridging_developers.csv nao encontrado"})

\* lines 344 and 390-394: the messages classify_roles prints, the last five only
\* when the classification was made
classify_roles_prints(err) ==
    {"Classificando desenvolvedores em papeis"}
    \cup (IF err = "none"
          THEN {"Classificacao concluida", "Core:", "Peripheral:", "Connector:",
                "Intermediate:"}
          ELSE {})

\* lines 69-75: a missing bridging_developers.csv gives the empty table
load_bridging(exists, rows) == IF exists THEN rows ELSE << >>

load_bridging_cols(exists, cols) == IF exists THEN cols ELSE {"Vertex", "BridgingStrength"}

\* lines 48-55: the names load_data gives the columns, EXTRA dropped
InteractionColumns == {"Source", "Target", "Type", "Weight", "Timestamp", "Context"}

CentralityColumns ==
    {"Vertex", "Label", "DegreeCentrality", "BetweennessCentrality",
     "ClosenessCentrality", "PageRank"}

BridgingColumns ==
    {"Vertex", "Label", "CommunityID", "BridgingStrength", "ConnectedCommunities"}

CommunityColumns == {"Vertex", "Label", "CommunityID"}

----------------------------------------------------------------------------
(* analyze_community_cohesion, lines 752-861 *)

\* Series.unique(): the distinct values in order of first appearance
RECURSIVE unique(_)
unique(s) ==
    IF Len(s) = 0 THEN << >>
    ELSE LET front == unique(SubSeq(s, 1, Len(s) - 1))
             last  == s[Len(s)]
         IN  IF last \in Range(front) THEN front ELSE Append(front, last)

\* line 766 / 875: set(communities[communities['CommunityID'] == comm_id]['Label'])
comm_members(comms, comm_id) ==
    {comms[i].Label : i \in {j \in DOMAIN comms : comms[j].CommunityID = comm_id}}

\* lines 769-772: interactions with an endpoint in the community
comm_interactions(inter, M) ==
    SelectSeq(inter, LAMBDA r : r.Source \in M \/ r.Target \in M)

intra_edges_pairs(inter, M) ==
    Cardinality({<< r.Source, r.Target >> : r \in
        {x \in Range(comm_interactions(inter, M)) : x.Source \in M /\ x.Target \in M}})

\* lines 775-778: len() of the rows with both endpoints in the community
intra_edges(inter, M) ==
    Len(SelectSeq(comm_interactions(inter, M),
                  LAMBDA r : r.Source \in M /\ r.Target \in M))

inter_edges_outbound(inter, M) ==
    Len(SelectSeq(comm_interactions(inter, M),
                  LAMBDA r : r.Source \in M /\ ~(r.Target \in M)))

\* lines 781-787
inter_edges(inter, M) ==
    Len(SelectSeq(comm_interactions(inter, M),
                  LAMBDA r : r.Source \in M /\ ~(r.Target \in M)))
    + Len(SelectSeq(comm_interactions(inter, M),
                    LAMBDA r : ~(r.Source \in M) /\ r.Target \in M))

\* float('inf'), as the fraction 1/0; every other ratio is << numerator, denominator >>
\* with a positive denominator
Inf == << 1, 0 >>

density_intra_unguarded(intra, n) == << intra, n * (n - 1) >>

density_intra_undirected(intra, n) ==
    IF n * (n - 1) > 0 THEN << intra, (n * (n - 1)) \div 2 >> ELSE << 0, 1 >>

\* lines 790-792
density_intra(intra, n) ==
    IF n * (n - 1) > 0 THEN << intra, n * (n - 1) >> ELSE << 0, 1 >>

ratio_zero(intra, inter) == IF inter > 0 THEN << intra, inter >> ELSE << 0, 1 >>

\* line 795
ratio(intra, inter) == IF inter > 0 THEN << intra, inter >> ELSE Inf

community_stats_assigned(comms, inter, comm_id) ==
    LET M     == comm_members(comms, comm_id)
        n     == Cardinality(M)
        known == SelectSeq(inter, LAMBDA r :
                     /\ r.Source \in Range(Column(comms, "Label"))
                     /\ r.Target \in Range(Column(comms, "Label")))
    IN  [CommunityID     |-> comm_id,
         Size            |-> n,
         IntraEdges      |-> intra_edges(known, M),
         InterEdges      |-> inter_edges(known, M),
         IntraDensity    |-> density_intra(intra_edges(known, M), n),
         IntraInterRatio |-> ratio(intra_edges(known, M), inter_edges(known, M))]

\* lines 797-803: the entry of one community
community_stats(comms, inter, comm_id) ==
    LET M == comm_members(comms, comm_id)
        n == Cardinality(M)
    IN  [CommunityID     |-> comm_id,
         Size            |-> n,
         IntraEdges      |-> intra_edges(inter, M),
         InterEdges      |-> inter_edges(inter, M),
         IntraDensity    |-> density_intra(intra_edges(inter, M), n),
         IntraInterRatio |-> ratio(intra_edges(inter, M), inter_edges(inter, M))]

\* lines 765-808: one row per distinct CommunityID, in order of first appearance
cohesion_rows(comms, inter) ==
    LET ids == unique(Column(comms, "CommunityID"))
    IN  [k \in DOMAIN ids |-> community_stats(comms, inter, ids[k])]

\* DataFrame.sort_values(col, ascending=False), default kind 'quicksort': the rows
\* in descending order of the column; the order of rows with equal keys is not
\* fixed by the call, so every such order is a possible result.
sort_values_desc(rows, col) ==
    {[i \in DOMAIN rows |-> rows[p[i]]] : p \in
        {q \in Orderings(Len(rows)) :
            \A i, j \in 1..Len(rows) : i < j => rows[q[i]][col] >= rows[q[j]][col]}}

\* float_format='%.6f': a finite fraction rounded to six decimals; inf is written
\* as "inf"
format_6f(r) ==
    IF r[2] = 0 THEN r
    ELSE << (2 * 1000000 * r[1] + r[2]) \div (2 * r[2]), 1000000 >>

\* line 813: the rows as to_csv writes them, the two float columns formatted
to_csv_6f(df) ==
    [k \in DOMAIN df |->
        [df[k] EXCEPT !.IntraDensity = format_6f(@), !.IntraInterRatio = format_6f(@)]]

\* float('nan') as a ratio
NaNRatio == << 0, 0 >>

\* line 833: top20['IntraInterRatio'][top20['IntraInterRatio'] != float('inf')].max(),
\* NaN when no ratio is finite
max_finite(df) ==
    LET F == {df[k].IntraInterRatio : k \in DOMAIN df} \ {Inf}
    IN  IF F = {} THEN NaNRatio
        ELSE CHOOSE a \in F : \A b \in F : b[1] * a[2] <= a[1] * b[2]

\* line 833: Series.replace([inf], max * 1.5) gives a new Series (head(20) keeps
\* every row of a table of at most 20 communities)
figure_ratios(df) ==
    [k \in DOMAIN df |->
        IF df[k].IntraInterRatio = Inf
        THEN << 3 * max_finite(df)[1], 2 * max_finite(df)[2] >>
        ELSE df[k].IntraInterRatio]

stats_df_replaced(df, rs) ==
    [k \in DOMAIN df |-> [df[k] EXCEPT !.IntraInterRatio = rs[k]]]

\* lines 833-861: stats_df is not assigned after the sort; `ratios` is a Series of
\* its own, so the returned frame is the sorted one
stats_df_returned(df, rs) == df

\* lines 806-809: an empty community table gives a frame without columns and
\* sort_values('Size') raises KeyError
cohesion_error(comms, cols) ==
    IF ~({"Label", "CommunityID"} \subseteq cols) THEN "KeyError"
    ELSE IF empty(comms) THEN "KeyError (empty frame)"
    ELSE "none"

----------------------------------------------------------------------------
(* analyze_community_function, lines 863-960 *)

intra_interactions_source(inter, M) == SelectSeq(inter, LAMBDA r : r.Source \in M)

\* lines 878-881
intra_interactions(inter, M) ==
    SelectSeq(inter, LAMBDA r : r.Source \in M /\ r.Target \in M)

\* line 887: type_counts.get(t, 0)
type_count(rows, t) == Len(SelectSeq(rows, LAMBDA r : r.Type = t))

pct_of_canonical(rows, t) ==
    << 100 * type_count(rows, t),
       Len(SelectSeq(rows, LAMBDA r : r.Type \in Range(CanonicalTypes))) >>

\* lines 894-899: (count / total) * 100, as the fraction << 100 * count, total >>
pct(rows, t) == << 100 * type_count(rows, t), Len(rows) >>

idxmax_positive(p) ==
    IF \A j \in DOMAIN CanonicalTypes : p[CanonicalTypes[j]][1] = 0 THEN "NONE"
    ELSE LET best == CHOOSE k \in DOMAIN CanonicalTypes :
                    /\ \A j \in DOMAIN CanonicalTypes :
                           p[CanonicalTypes[j]][1] <= p[CanonicalTypes[k]][1]
                    /\ \A j \in 1..(k - 1) :
                           p[CanonicalTypes[j]][1] < p[CanonicalTypes[k]][1]
         IN  CanonicalTypes[best]

idxmax_last(p) ==
    LET best == CHOOSE k \in DOMAIN CanonicalTypes :
                    /\ \A j \in DOMAIN CanonicalTypes :
                           p[CanonicalTypes[j]][1] <= p[CanonicalTypes[k]][1]
                    /\ \A j \in (k + 1)..Len(CanonicalTypes) :
                           p[CanonicalTypes[j]][1] < p[CanonicalTypes[k]][1]
    IN  CanonicalTypes[best]

\* line 908: idxmax(axis=1) over the six columns in the order of interaction_cols:
\* the first column holding the row maximum
idxmax(p) ==
    LET best == CHOOSE k \in DOMAIN CanonicalTypes :
                    /\ \A j \in DOMAIN CanonicalTypes :
                           p[CanonicalTypes[j]][1] <= p[CanonicalTypes[k]][1]
                    /\ \A j \in 1..(k - 1) :
                           p[CanonicalTypes[j]][1] < p[CanonicalTypes[k]][1]
    IN  CanonicalTypes[best]

\* lines 890-900 and 908: the row of one community
functional_row(comms, inter, comm_id) ==
    LET M    == comm_members(comms, comm_id)
        rows == intra_interactions(inter, M)
        p    == [t \in Range(CanonicalTypes) |-> pct(rows, t)]
    IN  [CommunityID       |-> comm_id,
         Size              |-> Cardinality(M),
         TotalInteractions |-> Len(rows),
         Pct               |-> p,
         DominantType      |-> idxmax(p)]

functional_data_all(comms, inter) ==
    LET ids == unique(Column(comms, "CommunityID"))
    IN  [k \in DOMAIN ids |-> functional_row(comms, inter, ids[k])]

\* lines 874-900: communities without intra interactions are skipped (line 883)
functional_data(comms, inter) ==
    LET ids  == unique(Column(comms, "CommunityID"))
        kept == SelectSeq(ids, LAMBDA c :
                    Len(intra_interactions(inter, comm_members(comms, c))) # 0)
    IN  [k \in DOMAIN kept |-> functional_row(comms, inter, kept[k])]

\* lines 902-903: without any row the frame has no columns and
\* sort_values('TotalInteractions') raises KeyError
function_error(comms, inter, cols) ==
    IF ~({"Label", "CommunityID"} \subseteq cols) THEN "KeyError"
    ELSE IF empty(functional_data(comms, inter)) THEN "KeyError (empty frame)"
    ELSE "none"

----------------------------------------------------------------------------
(* src/fix_csv_decimals.py, fix_decimal_separators, lines 11-31 *)

\* the characters of a file: "1" stands for any digit, "a" for any character that
\* is neither a digit, a comma nor a line end
Chars == {"1", ",", "a", "\r", "\n"}

digit(c) == c = "1"

\* lines 20-21: open(..., 'r') reads with universal newlines: "\r\n" and a lone
\* "\r" both arrive as "\n"
RECURSIVE read_text(_)
read_text(s) ==
    IF Len(s) = 0 THEN << >>
    ELSE IF s[1] = "\r"
    THEN IF Len(s) > 1 /\ s[2] = "\n"
         THEN << "\n" >> \o read_text(SubSeq(s, 3, Len(s)))
         ELSE << "\n" >> \o read_text(SubSeq(s, 2, Len(s)))
    ELSE << s[1] >> \o read_text(SubSeq(s, 2, Len(s)))

\* lines 27-28: open(..., 'w') writes "\n" as os.linesep
RECURSIVE write_text(_, _)
write_text(s, sep) ==
    IF Len(s) = 0 THEN << >>
    ELSE (IF s[1] = "\n" /\ sep = "\r\n" THEN << "\r", "\n" >> ELSE << s[1] >>)
         \o write_text(SubSeq(s, 2, Len(s)), sep)

\* line 25: re.sub(r'(\d),(\d)', r'\1.\2', content): the matches are found from
\* left to right and do not overlap, so the search goes on after the second digit
\* of a match
RECURSIVE re_sub(_)
re_sub(s) ==
    IF Len(s) = 0 THEN << >>
    ELSE IF Len(s) >= 3 /\ digit(s[1]) /\ s[2] = "," /\ digit(s[3])
    THEN << s[1], ".", s[3] >> \o re_sub(SubSeq(s, 4, Len(s)))
    ELSE << s[1] >> \o re_sub(SubSeq(s, 2, Len(s)))

\* lines 17-18: shutil.copy copies the bytes of the file
copy(s) == s

----------------------------------------------------------------------------
(* The input tables *)

SeqsUpTo(n, S) == UNION {[1..k -> S] : k \in 0..n}

\* centrality tables with Vertex = row number and every combination of metrics
MetricTables ==
    UNION {{[i \in 1..n |-> [Vertex |-> i, DegreeCentrality |-> f[i][1],
                             BetweennessCentrality |-> f[i][2], PageRank |-> f[i][3]]] :
              f \in [1..n -> DegreeValues \X BetweennessValues \X PageRankValues]} :
           n \in 0..MaxRows}

\* centrality tables with every combination of vertices and all metrics 0
VertexTables ==
    {[i \in DOMAIN f |-> [Vertex |-> f[i], DegreeCentrality |-> 0,
                          BetweennessCentrality |-> 0, PageRank |-> 0]] :
        f \in SeqsUpTo(MaxRows, Vertices)}

BridgingRecords == [Vertex : BridgingVertices, BridgingStrength : BridgingStrengths]

BridgingTables == SeqsUpTo(MaxBridging, BridgingRecords)

\* the bridging tables tried with every metric table
FewBridgingTables ==
    SeqsUpTo(1, [Vertex : BridgingVertices, BridgingStrength : {0, 1}])

\* community tables: every label in at most one row, the rows in any order, any
\* community per row
CommunityTables ==
    {t \in SeqsUpTo(Cardinality(Labels), [Label : Labels, CommunityID : CommunityIds]) :
        \A i, j \in DOMAIN t : t[i].Label = t[j].Label => i = j}

\* interaction logs; load_data reads Type of the first row (line 57), so a
\* constructed object has at least one interaction
InteractionLogs(types) ==
    SeqsUpTo(MaxInteractions, [Source : Labels, Target : Labels, Type : types]) \ {<< >>}

\* logs one record longer, between the two members of one community
DenseLogs ==
    [1..(MaxInteractions + 1) ->
        [Source : {"A", "B"}, Target : {"A", "B"}, Type : {"COMMENT_PR"}]]

\* a community {A, B, C} with D outside it (in a community of its own, or in no
\* row), the rows in any order
ExampleRows ==
    << [Label |-> "A", CommunityID |-> 1], [Label |-> "B", CommunityID |-> 1],
       [Label |-> "C", CommunityID |-> 1], [Label |-> "D", CommunityID |-> 2] >>

ExampleCommunities ==
    UNION {{[i \in 1..n |-> ExampleRows[p[i]]] : p \in Orderings(n)} : n \in {3, 4}}

\* the log A->B, B->C, C->A, A->D, the records in any order
ExampleRecords ==
    << [Source |-> "A", Target |-> "B", Type |-> "COMMENT_PR"],
       [Source |-> "B", Target |-> "C", Type |-> "COMMENT_PR"],
       [Source |-> "C", Target |-> "A", Type |-> "PR_MERGE"],
       [Source |-> "A", Target |-> "D", Type |-> "COMMENT_ISSUE"] >>

ExampleLogs == {[i \in 1..4 |-> ExampleRecords[p[i]]] : p \in Orderings(4)}

SampleCentrality ==
    << [Vertex |-> 1, DegreeCentrality |-> 2, BetweennessCentrality |-> 1, PageRank |-> 2],
       [Vertex |-> 2, DegreeCentrality |-> 0, BetweennessCentrality |-> 0, PageRank |-> 0],
       [Vertex |-> 3, DegreeCentrality |-> 1, BetweennessCentrality |-> 0, PageRank |-> 1] >>

SampleCommunities ==
    << [Label |-> "A", CommunityID |-> 1], [Label |-> "B", CommunityID |-> 1],
       [Label |-> "C", CommunityID |-> 2] >>

SampleInteractions ==
    << [Source |-> "A", Target |-> "B", Type |-> "COMMENT_PR"],
       [Source |-> "B", Target |-> "C", Type |-> "COMMENT_ISSUE"] >>

\* a file's header: complete, or with one required column absent
Headers(all) == {all} \cup {all \ {c} : c \in all}

----------------------------------------------------------------------------
(* The state after construction (__init__ has run load_data) *)

\* no CSV file is being repaired
NoCsvFile ==
    /\ csv_content = << >>
    /\ csv_backup = << >>
    /\ linesep = "\n"

InitResults ==
    /\ interactions_cols = InteractionColumns
    /\ merged = << >>
    /\ quartiles = thresholds(<< >>)
    /\ role_data = << >>
    /\ prev_role_data = << >>
    /\ runs = 0
    /\ printed = load_data_prints(bridging_exists)
    /\ table8 = << >>
    /\ stats_df = << >>
    /\ table11 = << >>
    /\ ratios = << >>
    /\ func_df = << >>
    /\ called = {}
    /\ error = "none"
    /\ written = {}

InitBridging(tables) ==
    \E exists \in BOOLEAN, rows \in tables :
        /\ exists \/ rows = << >>
        /\ bridging_exists = exists
        /\ bridging = load_bridging(exists, rows)
        /\ bridging_cols = load_bridging_cols(exists, BridgingColumns)

\* classify_roles called on a loaded object: every metric table with few bridging
\* tables, and every vertex table with every bridging table
InitRoles ==
    /\ \/ centrality \in MetricTables /\ InitBridging(FewBridgingTables)
       \/ centrality \in VertexTables /\ InitBridging(BridgingTables)
    /\ centrality_cols = CentralityColumns
    /\ communities = SampleCommunities
    /\ communities_cols = CommunityColumns
    /\ interactions = SampleInteractions
    /\ pc = 0
    /\ InitResults
    /\ NoCsvFile

\* the role table built from every metric table, without bridging records
InitTables ==
    /\ centrality \in MetricTables
    /\ InitBridging({<< >>})
    /\ centrality_cols = CentralityColumns
    /\ communities = SampleCommunities
    /\ communities_cols = CommunityColumns
    /\ interactions = SampleInteractions
    /\ pc = 0
    /\ InitResults
    /\ NoCsvFile

\* fix_decimal_separators given an existing file, on either kind of platform
InitFix ==
    /\ csv_content \in SeqsUpTo(MaxChars, Chars)
    /\ csv_backup = << >>
    /\ linesep \in {"\n", "\r\n"}
    /\ centrality = SampleCentrality
    /\ centrality_cols = CentralityColumns
    /\ bridging = << >>
    /\ bridging_cols = BridgingColumns
    /\ bridging_exists = TRUE
    /\ communities = SampleCommunities
    /\ communities_cols = CommunityColumns
    /\ interactions = SampleInteractions
    /\ pc = 0
    /\ InitResults

\* the community analyses called on a loaded object
InitCommunity ==
    /\ \/ communities \in CommunityTables /\ interactions \in InteractionLogs({"COMMENT_PR"})
       \/ communities = SampleCommunities /\ interactions \in InteractionLogs(InteractionTypes)
       \/ communities = SampleCommunities /\ interactions \in DenseLogs
       \/ communities \in ExampleCommunities /\ interactions \in ExampleLogs
    /\ communities_cols = CommunityColumns
    /\ centrality = SampleCentrality
    /\ centrality_cols = CentralityColumns
    /\ bridging = << >>
    /\ bridging_cols = BridgingColumns
    /\ bridging_exists = TRUE
    /\ pc = 0
    /\ InitResults
    /\ NoCsvFile

\* run_all on a loaded object whose files may each lack one column
InitRun ==
    /\ centrality = SampleCentrality
    /\ centrality_cols \in Headers(CentralityColumns)
    /\ \E exists \in BOOLEAN, rows \in FewBridgingTables, cols \in Headers(BridgingColumns) :
        /\ exists \/ (rows = << >> /\ cols = BridgingColumns)
        /\ bridging_exists = exists
        /\ bridging = load_bridging(exists, rows)
        /\ bridging_cols = load_bridging_cols(exists, cols)
    /\ communities = SampleCommunities
    /\ communities_cols \in Headers(CommunityColumns)
    /\ interactions \in {SampleInteractions, << SampleInteractions[2] >>}
    /\ pc = 1
    /\ InitResults
    /\ NoCsvFile

----------------------------------------------------------------------------
(* The methods *)

\* classify_roles, lines 342-398
DoClassifyRoles ==
    LET err == classify_roles_error(centrality_cols, bridging, bridging_cols)
        m   == merge_bridging(centrality, bridging)
        th  == thresholds(m)
    IN  /\ error' = err
        /\ printed' = printed \cup classify_roles_prints(err)
        /\ IF err = "none"
           THEN /\ merged' = m
                /\ quartiles' = th
                /\ role_data' = apply_classify(m, th)
                /\ prev_role_data' = role_data
                /\ runs' = runs + 1
                /\ centrality' = self_centrality_after(centrality, m)
                /\ centrality_cols' = self_centrality_cols_after(centrality_cols)
                /\ bridging' = self_bridging_after(bridging)
                /\ called' = called \cup {"classify_roles"}
           ELSE UNCHANGED << merged, quartiles, role_data, prev_role_data, runs, centrality,
                             centrality_cols, bridging, called >>

\* analyze_community_cohesion, lines 752-861; the table is saved (line 813) before
\* the figure (line 850)
DoAnalyzeCommunityCohesion ==
    LET err == cohesion_error(communities, communities_cols)
    IN  /\ error' = err
        /\ IF err = "none"
           THEN /\ \E df \in sort_values_desc(cohesion_rows(communities, interactions), "Size") :
                    /\ table11' = to_csv_6f(df)
                    /\ ratios' = figure_ratios(df)
                    /\ stats_df' = stats_df_returned(df, figure_ratios(df))
                /\ written' = written \cup {"table11_community_cohesion.csv",
                                            "fig15_community_cohesion.png"}
                /\ called' = called \cup {"analyze_community_cohesion"}
           ELSE UNCHANGED << stats_df, table11, ratios, written, called >>

\* analyze_community_function, lines 863-960
DoAnalyzeCommunityFunction ==
    LET err == function_error(communities, interactions, communities_cols)
    IN  /\ error' = err
        /\ IF err = "none"
           THEN /\ func_df' \in sort_values_desc(functional_data(communities, interactions),
                                                 "TotalInteractions")
                /\ written' = written \cup {"table12_community_function.csv",
                                            "fig16_community_function.png"}
                /\ called' = called \cup {"analyze_community_function"}
           ELSE UNCHANGED << func_df, written, called >>

\* table_role_classification(role_data), lines 459-482
DoTableRoleClassification ==
    LET err == table_role_classification_error(centrality_cols)
    IN  /\ error' = err
        /\ IF err = "none"
           THEN /\ table8' = table_role_classification(role_data)
                /\ written' = written \cup {"table8_role_classification.csv"}
                /\ called' = called \cup {"table_role_classification"}
           ELSE UNCHANGED << table8, written, called >>

\* the inputs classify_roles does not read or reads through a selection only
OtherInputs == << bridging_cols, bridging_exists, communities, communities_cols,
                  interactions >>

Inputs == << centrality_cols, bridging, bridging_cols, bridging_exists, communities,
             communities_cols, interactions >>

RoleState == << centrality, merged, quartiles, role_data, prev_role_data, runs, printed >>

TableState == << table8 >>

FixState == << csv_content, csv_backup, linesep >>

CohesionState == << stats_df, table11, ratios >>

\* fix_decimal_separators(file_path), src/fix_csv_decimals.py lines 11-31
FixDecimalSeparators ==
    /\ pc = 0
    /\ csv_backup' = copy(csv_content)
    /\ csv_content' = write_text(re_sub(read_text(copy(csv_content))), linesep)
    /\ called' = called \cup {"fix_decimal_separators"}
    /\ UNCHANGED << Inputs, interactions_cols, RoleState, TableState, CohesionState,
                    func_df, linesep, pc, error, written >>

(* Direct calls on the object *)

ClassifyRoles ==
    /\ pc = 0
    /\ runs < MaxRuns
    /\ DoClassifyRoles
    /\ UNCHANGED << OtherInputs, FixState, interactions_cols, TableState, CohesionState, func_df, pc, written >>

\* called with the table a classify_roles call returned
CallTableRoleClassification ==
    /\ pc = 0
    /\ "classify_roles" \in called
    /\ DoTableRoleClassification
    /\ UNCHANGED << Inputs, FixState, interactions_cols, RoleState, CohesionState, func_df, pc >>

AnalyzeCommunityCohesion ==
    /\ pc = 0
    /\ DoAnalyzeCommunityCohesion
    /\ UNCHANGED << Inputs, FixState, interactions_cols, TableState, RoleState, func_df, pc >>

AnalyzeCommunityFunction ==
    /\ pc = 0
    /\ DoAnalyzeCommunityFunction
    /\ UNCHANGED << Inputs, FixState, interactions_cols, TableState, RoleState, CohesionState, pc >>

----------------------------------------------------------------------------
(* run_all, lines 962-993: the steps in order; an exception ends the run *)

Done == 16

Running(k) == pc = k /\ error = "none"

\* a step that returned: its files are written and run_all goes on
Returned(files) ==
    /\ pc' = pc + 1
    /\ written' = written \cup files

\* a step that reads only the interaction table, whose columns load_data names
\* itself (lines 48-52)
InteractionsStep(k, files) ==
    /\ Running(k)
    /\ Returned(files)
    /\ UNCHANGED << Inputs, FixState, interactions_cols, TableState, RoleState, CohesionState, func_df, called, error >>

\* a step that selects columns of role_data (lines 464-466, 489-495): KeyError
\* when one of them is not in the centrality file
RoleTableStep(k, cols, files) ==
    /\ Running(k)
    /\ IF cols \subseteq centrality_cols
       THEN Returned(files) /\ UNCHANGED error
       ELSE error' = "KeyError" /\ UNCHANGED << pc, written >>
    /\ UNCHANGED << Inputs, FixState, interactions_cols, TableState, RoleState, CohesionState, func_df, called >>

LoadedInputs == << centrality_cols, bridging, bridging_cols, bridging_exists, communities,
                   communities_cols >>

\* a temporal step: it reads columns of self.interactions (KeyError when one is
\* not there) and assigns derived columns to it
TemporalStep(k, reads, adds, files) ==
    /\ Running(k)
    /\ IF reads \subseteq interactions_cols
       THEN /\ Returned(files)
            /\ interactions' = assign_rows(interactions, adds)
            /\ interactions_cols' = assign_columns(interactions_cols, adds)
            /\ UNCHANGED error
       ELSE /\ error' = "KeyError"
            /\ UNCHANGED << pc, written, interactions, interactions_cols >>
    /\ UNCHANGED << LoadedInputs, FixState, TableState, RoleState, CohesionState, func_df,
                    called >>

\* line 90 creates YearMonth
Figure7TemporalNodes ==
    TemporalStep(1, {"Timestamp"}, {"YearMonth"}, {"fig7_temporal_nodes.png"})

\* line 134 groups by YearMonth
Figure8TemporalInteractions ==
    TemporalStep(2, {"YearMonth"}, {}, {"fig8_temporal_interactions.png"})

\* lines 171-172 create Year and Month
Figure9ActivityHeatmap ==
    TemporalStep(3, {"Timestamp"}, {"Year", "Month"}, {"fig9_activity_heatmap.png"})

\* line 205 creates YearMonth again
Figure11MonthlyDetailed ==
    TemporalStep(4, {"Timestamp"}, {"YearMonth"}, {"fig11_monthly_detailed.png"})

\* line 299 groups by YearMonth
TableTemporalStats ==
    TemporalStep(5, {"YearMonth"}, {}, {"table7_temporal_stats.csv"})

RunClassifyRoles ==
    /\ Running(6)
    /\ DoClassifyRoles
    /\ pc' = IF error' = "none" THEN pc + 1 ELSE pc
    /\ UNCHANGED << OtherInputs, FixState, interactions_cols, TableState, CohesionState, func_df, written >>

Figure10RoleDistribution == RoleTableStep(7, {}, {"fig10_role_distribution.png"})

TableRoleClassification ==
    /\ Running(8)
    /\ DoTableRoleClassification
    /\ pc' = IF error' = "none" THEN pc + 1 ELSE pc
    /\ UNCHANGED << Inputs, FixState, interactions_cols, RoleState, CohesionState, func_df >>

TableRoleStatistics ==
    RoleTableStep(9, {"Vertex", "DegreeCentrality", "BetweennessCentrality", "PageRank"},
                  {"table9_role_statistics.csv"})

Table10DeveloperActivityVolume ==
    InteractionsStep(10, {"table10_developer_activity_volume.csv"})

Figure12TopDevelopersActivity == InteractionsStep(11, {"fig12_top_developers_activity.png"})

Figure13ActivityComposition == InteractionsStep(12, {"fig13_activity_composition.png"})

Figure14ActivityDistribution == InteractionsStep(13, {"fig14_activity_distribution.png"})

RunAnalyzeCommunityCohesion ==
    /\ Running(14)
    /\ DoAnalyzeCommunityCohesion
    /\ pc' = IF error' = "none" THEN pc + 1 ELSE pc
    /\ UNCHANGED << Inputs, FixState, interactions_cols, TableState, RoleState, func_df >>

RunAnalyzeCommunityFunction ==
    /\ Running(15)
    /\ DoAnalyzeCommunityFunction
    /\ pc' = IF error' = "none" THEN pc + 1 ELSE pc
    /\ UNCHANGED << Inputs, FixState, interactions_cols, TableState, RoleState, CohesionState >>

----------------------------------------------------------------------------
(* Specifications *)

NextRoles == ClassifyRoles

NextFix == FixDecimalSeparators

NextTables == ClassifyRoles \/ CallTableRoleClassification

NextCommunity == AnalyzeCommunityCohesion \/ AnalyzeCommunityFunction

Next ==
    \/ Figure7TemporalNodes
    \/ Figure8TemporalInteractions
    \/ Figure9ActivityHeatmap
    \/ Figure11MonthlyDetailed
    \/ TableTemporalStats
    \/ RunClassifyRoles
    \/ Figure10RoleDistribution
    \/ TableRoleClassification
    \/ TableRoleStatistics
    \/ Table10DeveloperActivityVolume
    \/ Figure12TopDevelopersActivity
    \/ Figure13ActivityComposition
    \/ Figure14ActivityDistribution
    \/ RunAnalyzeCommunityCohesion
    \/ RunAnalyzeCommunityFunction

\* run_all on a freshly constructed object
Spec == InitRun /\ [][Next]_vars

\* classify_roles called, up to MaxRuns times, on a freshly constructed object
SpecRoles == InitRoles /\ [][NextRoles]_vars

\* classify_roles and table_role_classification called on a freshly constructed
\* object
SpecTables == InitTables /\ [][NextTables]_vars

\* fix_decimal_separators called on a file, any number of times
SpecFix == InitFix /\ [][NextFix]_vars

\* the two community analyses called on a freshly constructed object
SpecCommunity == InitCommunity /\ [][NextCommunity]_vars

----------------------------------------------------------------------------
(* Properties of classify_roles, checked under SpecRoles *)

Roles == {"Core", "Connector", "Peripheral", "Intermediate"}

\* classify_roles has returned a table
Classified == runs > 0

MatchesConnector(i) ==
    \/ 4 * merged[i].BetweennessCentrality > quartiles.q3_betweenness
    \/ merged[i].BridgingStrength > 0

MatchesCore(i) ==
    /\ 4 * merged[i].DegreeCentrality > quartiles.q3_degree
    /\ 4 * merged[i].PageRank > quartiles.q3_pr

MatchesPeripheral(i) ==
    /\ 4 * merged[i].DegreeCentrality < quartiles.q1_degree
    /\ 4 * merged[i].PageRank < quartiles.q1_pr

\* C1: on a non-empty merged table every row of the result is the merged row plus
\* exactly one role out of Core, Connector, Peripheral, Intermediate.
C1_ExactlyOneRole ==
    (Classified /\ Len(merged) > 0) =>
        /\ Len(role_data) = Len(merged)
        /\ \A i \in DOMAIN role_data :
            /\ Cardinality({r \in Roles : role_data[i].Role = r}) = 1
            /\ WithBridging(role_data[i], role_data[i].BridgingStrength) = merged[i]

C1_Witness ==
    /\ Classified
    /\ Cardinality({role_data[i].Role : i \in DOMAIN role_data}) >= 3

\* C2: every row with betweenness above Q3(betweenness) or BridgingStrength > 0 is
\* Connector, also when it meets the Core or the Peripheral condition.
C2_ConnectorPriority ==
    Classified =>
        \A i \in DOMAIN role_data : MatchesConnector(i) => role_data[i].Role = "Connector"

C2_Witness ==
    /\ Classified
    /\ \E i \in DOMAIN role_data :
        MatchesConnector(i) /\ MatchesCore(i) /\ role_data[i].Role = "Connector"
    /\ \E i \in DOMAIN role_data :
        MatchesConnector(i) /\ MatchesPeripheral(i) /\ role_data[i].Role = "Connector"

\* C3: a row whose betweenness equals Q3(betweenness) and whose BridgingStrength is 0
\* is never Connector.
C3_BoundaryNotConnector ==
    Classified =>
        \A i \in DOMAIN role_data :
            (4 * merged[i].BetweennessCentrality = quartiles.q3_betweenness
                /\ merged[i].BridgingStrength = 0)
            => role_data[i].Role # "Connector"

C3_Witness ==
    /\ Classified
    /\ \E i \in DOMAIN role_data :
        /\ 4 * merged[i].BetweennessCentrality = quartiles.q3_betweenness
        /\ merged[i].BetweennessCentrality > 0
        /\ merged[i].BridgingStrength = 0
    /\ \E i \in DOMAIN role_data : role_data[i].Role = "Connector"

\* C4: a row that does not match the Connector rule is Core exactly when degree and
\* PageRank are both strictly above their Q3, Peripheral exactly when both are
\* strictly below their Q1, and Intermediate in every other case.
C4_CorePeripheralIntermediate ==
    Classified =>
        \A i \in DOMAIN role_data :
            ~MatchesConnector(i) =>
                /\ role_data[i].Role = "Core" <=> MatchesCore(i)
                /\ role_data[i].Role = "Peripheral" <=> MatchesPeripheral(i)
                /\ role_data[i].Role = "Intermediate"
                       <=> (~MatchesCore(i) /\ ~MatchesPeripheral(i))

C4_Witness ==
    /\ Classified
    /\ \E i \in DOMAIN role_data :
        /\ ~MatchesConnector(i)
        /\ 4 * merged[i].DegreeCentrality = quartiles.q3_degree
        /\ 4 * merged[i].PageRank > quartiles.q3_pr
        /\ role_data[i].Role = "Intermediate"
    /\ \E i \in DOMAIN role_data : role_data[i].Role = "Peripheral"

\* C5: a second classify_roles call on the same object returns the table the
\* first call returned.
C5_SecondRunIdentical == runs >= 2 => role_data = prev_role_data

C5_Witness ==
    /\ runs = 2
    /\ Len(role_data) >= 2
    /\ \E i \in DOMAIN role_data : role_data[i].Role = "Connector"
    /\ \E i \in DOMAIN role_data : role_data[i].Role # "Connector"

\* no vertex has two records in the bridging table
UniqueBridgingVertices ==
    \A i, j \in DOMAIN bridging : i # j => bridging[i].Vertex # bridging[j].Vertex

\* the merged table is the centrality table, row for row, plus BridgingStrength
OneRowPerCentralityRow ==
    /\ Len(merged) = Len(centrality)
    /\ \A i \in DOMAIN merged : WithoutBridging(merged[i]) = centrality[i]

\* C6 as stated: whatever the bridging table contains, the merged table has exactly
\* one row per centrality row.
C6_OneRowWhateverBridging == Classified => OneRowPerCentralityRow

\* C6 amended: when no vertex has two bridging records, the merged table has exactly
\* one row per centrality row, in the centrality table's order.
C6_OneRowWhenBridgingUnique ==
    (Classified /\ UniqueBridgingVertices) => OneRowPerCentralityRow

C6_Witness ==
    /\ Classified
    /\ UniqueBridgingVertices
    /\ Len(bridging) = 2
    /\ Len(centrality) >= 2
    /\ \E i \in DOMAIN centrality :
        \E j \in DOMAIN bridging : bridging[j].Vertex = centrality[i].Vertex
    /\ \E i \in DOMAIN centrality :
        \A j \in DOMAIN bridging : bridging[j].Vertex # centrality[i].Vertex

RecordsOf(v) == {j \in DOMAIN bridging : bridging[j].Vertex = v}

\* C7: a merged row whose vertex has no bridging record has BridgingStrength 0, a
\* row whose vertex has records carries the value of one of them (each record of a
\* centrality vertex is carried by a row), and when no input value is negative no
\* merged value is.
C7_BridgingDefaultsToZero ==
    Classified =>
        /\ \A i \in DOMAIN merged :
            /\ RecordsOf(merged[i].Vertex) = {} => merged[i].BridgingStrength = 0
            /\ RecordsOf(merged[i].Vertex) # {} =>
                   \E j \in RecordsOf(merged[i].Vertex) :
                       merged[i].BridgingStrength = bridging[j].BridgingStrength
        /\ \A c \in DOMAIN centrality : \A j \in RecordsOf(centrality[c].Vertex) :
               \E i \in DOMAIN merged :
                   /\ merged[i].Vertex = centrality[c].Vertex
                   /\ merged[i].BridgingStrength = bridging[j].BridgingStrength
        /\ (\A j \in DOMAIN bridging : bridging[j].BridgingStrength >= 0)
               => \A i \in DOMAIN merged : merged[i].BridgingStrength >= 0

C7_Witness ==
    /\ Classified
    /\ \E i \in DOMAIN merged :
        RecordsOf(merged[i].Vertex) = {} /\ merged[i].BridgingStrength = 0
    /\ \E i \in DOMAIN merged :
        RecordsOf(merged[i].Vertex) # {} /\ merged[i].BridgingStrength = 1

\* C8 as stated: with a centrality table of zero rows classify_roles fails and
\* returns no table.
C8_EmptyInputFails == empty(centrality) => "classify_roles" \notin called

----------------------------------------------------------------------------
(* Properties of run_all, checked under Spec *)

OutputTables ==
    {"table7_temporal_stats.csv", "table8_role_classification.csv",
     "table9_role_statistics.csv", "table10_developer_activity_volume.csv",
     "table11_community_cohesion.csv", "table12_community_function.csv"}

\* C9 as stated: when the run has aborted on a missing column, no output table has
\* been written.
C9_NoPartialOutput == error = "KeyError" => written \cap OutputTables = {}

\* the steps of run_all that group by YearMonth are about to run
ReadsYearMonth == Running(2) \/ Running(5)

\* C30: in run_all a step that reads YearMonth runs only after a step has
\* created it; and no step changes the rows of the interaction table (row count,
\* Source, Target, Type), removes one of its columns, or touches the other loaded
\* tables, so classify_roles and the two community analyses get the inputs they
\* would get without the temporal steps.
C30_TemporalStepsOnlyAddColumns ==
    /\ [](ReadsYearMonth => "YearMonth" \in interactions_cols)
    /\ [][/\ interactions' = interactions
          /\ interactions_cols \subseteq interactions_cols'
          /\ communities' = communities
          /\ centrality' = centrality
          /\ bridging' = bridging]_vars

\* a complete run: the three derived columns are there, the log still has its two
\* rows, and the three analyses have returned
C30_Witness ==
    /\ pc = Done
    /\ error = "none"
    /\ {"YearMonth", "Year", "Month"} \subseteq interactions_cols
    /\ interactions = SampleInteractions
    /\ {"classify_roles", "analyze_community_cohesion", "analyze_community_function"}
           \subseteq called

----------------------------------------------------------------------------
(* Properties of the community analyses, checked under SpecCommunity *)

\* the labels the community table assigns to a community
MembersOf(c) ==
    {communities[i].Label : i \in {j \in DOMAIN communities : communities[j].CommunityID = c}}

\* the community table gives every label at most one community
OneCommunityPerLabel ==
    \A i, j \in DOMAIN communities :
        communities[i].Label = communities[j].Label => i = j

\* C10: IntraEdges of a community is the number of interaction records with Source
\* and Target both among its members, each record counted once.
C10_IntraEdgesCountsRecords ==
    "analyze_community_cohesion" \in called =>
        \A k \in DOMAIN stats_df :
            stats_df[k].IntraEdges =
                Cardinality({i \in DOMAIN interactions :
                    /\ interactions[i].Source \in MembersOf(stats_df[k].CommunityID)
                    /\ interactions[i].Target \in MembersOf(stats_df[k].CommunityID)})

C10_Witness ==
    /\ "analyze_community_cohesion" \in called
    /\ Len(interactions) = 2
    /\ interactions[1] = interactions[2]
    /\ \E k \in DOMAIN stats_df : stats_df[k].IntraEdges = 2 /\ stats_df[k].Size = 2

\* C11: InterEdges of a community with member set M is the number of interaction
\* records with exactly one endpoint in M (outbound plus inbound); records with no
\* endpoint in M are not counted, and IntraEdges + InterEdges is the number of
\* records with at least one endpoint in M.
C11_InterEdgesExactlyOneEndpoint ==
    "analyze_community_cohesion" \in called =>
        \A k \in DOMAIN stats_df :
            LET M == MembersOf(stats_df[k].CommunityID)
            IN  /\ stats_df[k].InterEdges =
                       Cardinality({i \in DOMAIN interactions :
                           (interactions[i].Source \in M) # (interactions[i].Target \in M)})
                /\ stats_df[k].IntraEdges + stats_df[k].InterEdges =
                       Cardinality({i \in DOMAIN interactions :
                           interactions[i].Source \in M \/ interactions[i].Target \in M})

\* one community with an outbound and an inbound record, another one that neither
\* record touches
C11_Witness ==
    /\ "analyze_community_cohesion" \in called
    /\ Len(interactions) = 2
    /\ \E k \in DOMAIN stats_df :
        LET M == MembersOf(stats_df[k].CommunityID)
        IN  /\ stats_df[k].InterEdges = 2
            /\ interactions[1].Source \in M /\ interactions[1].Target \notin M
            /\ interactions[2].Source \notin M /\ interactions[2].Target \in M
    /\ \E k \in DOMAIN stats_df :
        LET M == MembersOf(stats_df[k].CommunityID)
        IN  /\ stats_df[k].InterEdges = 0
            /\ \A i \in DOMAIN interactions :
                   interactions[i].Source \notin M /\ interactions[i].Target \notin M

\* C12 as stated: for every community of the cohesion table, IntraDensity is
\* IntraEdges / (n * (n - 1)) and lies in [0,1] when the size n is at least 2, and
\* is 0 when n < 2, whatever the interaction log.
C12_IntraDensityInUnitInterval ==
    "analyze_community_cohesion" \in called =>
        \A k \in DOMAIN stats_df :
            LET n == stats_df[k].Size
                d == stats_df[k].IntraDensity
            IN  IF n >= 2
                THEN /\ d = << stats_df[k].IntraEdges, n * (n - 1) >>
                     /\ 0 <= d[1] /\ d[1] <= d[2]
                ELSE d = << 0, 1 >>

\* C13 as stated: every community of size 1 has IntraDensity = 0 and
\* IntraEdges = 0, whatever the interaction log.
C13_SingletonHasNoIntraEdges ==
    ("analyze_community_cohesion" \in called /\ OneCommunityPerLabel) =>
        \A k \in DOMAIN stats_df :
            stats_df[k].Size = 1 =>
                stats_df[k].IntraDensity = << 0, 1 >> /\ stats_df[k].IntraEdges = 0

\* C13, amended: every community of size 1 has IntraDensity = 0, and its
\* IntraEdges is the number of self-loop records on its only member (0 when the
\* log has none).
C13_SingletonCountsSelfLoops ==
    "analyze_community_cohesion" \in called =>
        \A k \in DOMAIN stats_df :
            stats_df[k].Size = 1 =>
                /\ stats_df[k].IntraDensity = << 0, 1 >>
                /\ stats_df[k].IntraEdges =
                       Cardinality({i \in DOMAIN interactions :
                           /\ interactions[i].Source = interactions[i].Target
                           /\ interactions[i].Source \in MembersOf(stats_df[k].CommunityID)})

\* a singleton with a self-loop on its member, and a singleton without one
C13_Witness ==
    /\ "analyze_community_cohesion" \in called
    /\ OneCommunityPerLabel
    /\ \E k \in DOMAIN stats_df :
           stats_df[k].Size = 1 /\ stats_df[k].IntraEdges = 1
    /\ \E k \in DOMAIN stats_df :
           stats_df[k].Size = 1 /\ stats_df[k].IntraEdges = 0 /\ stats_df[k].InterEdges = 1

\* C14: a community with InterEdges = 0 gets the infinite sentinel as
\* IntraInterRatio, also when IntraEdges = 0, and the call returns; a community
\* with InterEdges > 0 gets the finite non-negative ratio IntraEdges / InterEdges.
C14_RatioSentinelOrFinite ==
    "analyze_community_cohesion" \in called =>
        \A k \in DOMAIN stats_df :
            /\ stats_df[k].InterEdges = 0 => stats_df[k].IntraInterRatio = Inf
            /\ stats_df[k].InterEdges > 0 =>
                   /\ stats_df[k].IntraInterRatio =
                          << stats_df[k].IntraEdges, stats_df[k].InterEdges >>
                   /\ stats_df[k].IntraInterRatio # Inf
                   /\ stats_df[k].IntraInterRatio[1] >= 0

\* the call has returned a table with a community without any edge and a
\* community with edges of both kinds
C14_Witness ==
    /\ "analyze_community_cohesion" \in called
    /\ \E k \in DOMAIN stats_df :
           /\ stats_df[k].InterEdges = 0 /\ stats_df[k].IntraEdges = 0
           /\ stats_df[k].IntraInterRatio = Inf
    /\ \E k \in DOMAIN stats_df :
           /\ stats_df[k].InterEdges > 0 /\ stats_df[k].IntraEdges > 0
           /\ stats_df[k].IntraInterRatio = << 1, 1 >>

\* C15: the cohesion table, as saved and as returned, keeps the infinite sentinel
\* for every community with InterEdges = 0; the bounded value computed for the
\* figure lives in `ratios` only and never replaces the sentinel in the table.
C15_TableKeepsSentinel ==
    "analyze_community_cohesion" \in called =>
        /\ Len(table11) = Len(stats_df) /\ Len(ratios) = Len(stats_df)
        /\ \A k \in DOMAIN stats_df :
               /\ table11[k].CommunityID = stats_df[k].CommunityID
               /\ stats_df[k].InterEdges = 0 =>
                      /\ stats_df[k].IntraInterRatio = Inf
                      /\ table11[k].IntraInterRatio = Inf
                      /\ ratios[k] # Inf

\* a community whose bar in the figure has the substitute 1.5 * (1/1) while its
\* row of the table holds the sentinel
C15_Witness ==
    /\ "analyze_community_cohesion" \in called
    /\ \E k \in DOMAIN stats_df :
           /\ stats_df[k].InterEdges = 0
           /\ ratios[k] = << 3, 2 >>
           /\ stats_df[k].IntraInterRatio = Inf
           /\ table11[k].IntraInterRatio = Inf

\* C16 as stated: the cohesion table has one row per distinct CommunityID, in
\* descending order of Size, rows of equal Size in ascending order of CommunityID,
\* whatever the order of the rows of the community table.
C16_SortedBySizeThenId ==
    ("analyze_community_cohesion" \in called /\ OneCommunityPerLabel) =>
        /\ {stats_df[k].CommunityID : k \in DOMAIN stats_df} =
               {communities[i].CommunityID : i \in DOMAIN communities}
        /\ \A i, j \in DOMAIN stats_df :
               i < j =>
                   \/ stats_df[i].Size > stats_df[j].Size
                   \/ /\ stats_df[i].Size = stats_df[j].Size
                      /\ stats_df[i].CommunityID < stats_df[j].CommunityID

\* the labels that have a row in the community table
Assigned == {communities[i].Label : i \in DOMAIN communities}

\* the interaction records with both endpoints in the community table
BothAssigned ==
    {i \in DOMAIN interactions :
        interactions[i].Source \in Assigned /\ interactions[i].Target \in Assigned}

\* C17 as stated: an interaction with an endpoint absent from the community table
\* is counted neither in IntraEdges nor in InterEdges of any community, so both
\* counts are counts over the records whose two endpoints are in the table.
C17_AbsentEndpointNeverCounted ==
    ("analyze_community_cohesion" \in called /\ OneCommunityPerLabel) =>
        \A k \in DOMAIN stats_df :
            LET M == MembersOf(stats_df[k].CommunityID)
            IN  /\ stats_df[k].IntraEdges =
                       Cardinality({i \in BothAssigned :
                           interactions[i].Source \in M /\ interactions[i].Target \in M})
                /\ stats_df[k].InterEdges =
                       Cardinality({i \in BothAssigned :
                           (interactions[i].Source \in M) # (interactions[i].Target \in M)})

\* C17, amended: an interaction with an endpoint absent from the community table
\* is never counted in IntraEdges; it is counted once in InterEdges of the
\* community of its other endpoint when that endpoint is in the table, and in no
\* count when both endpoints are absent.
C17_AbsentEndpointCountsAsInter ==
    "analyze_community_cohesion" \in called =>
        \A k \in DOMAIN stats_df :
            LET M == MembersOf(stats_df[k].CommunityID)
            IN  /\ stats_df[k].IntraEdges =
                       Cardinality({i \in BothAssigned :
                           interactions[i].Source \in M /\ interactions[i].Target \in M})
                /\ stats_df[k].InterEdges =
                       Cardinality({i \in BothAssigned :
                           (interactions[i].Source \in M) # (interactions[i].Target \in M)})
                       + Cardinality({i \in DOMAIN interactions :
                           \/ /\ interactions[i].Source \in M
                              /\ interactions[i].Target \notin Assigned
                           \/ /\ interactions[i].Source \notin Assigned
                              /\ interactions[i].Target \in M})

\* a record from a member to a label without a row, counted in InterEdges, and a
\* record between labels without a row
C17_Witness ==
    /\ "analyze_community_cohesion" \in called
    /\ OneCommunityPerLabel
    /\ Len(interactions) = 2
    /\ interactions[1].Source \in Assigned /\ interactions[1].Target \notin Assigned
    /\ interactions[2].Source \notin Assigned /\ interactions[2].Target \notin Assigned
    /\ \E k \in DOMAIN stats_df :
           /\ interactions[1].Source \in MembersOf(stats_df[k].CommunityID)
           /\ stats_df[k].InterEdges = 1 /\ stats_df[k].IntraEdges = 0

\* the interaction records with both endpoints in community c
IntraOf(c) ==
    {i \in DOMAIN interactions :
        interactions[i].Source \in MembersOf(c) /\ interactions[i].Target \in MembersOf(c)}

\* the sum of the numerators of the six percentages of a row (they share the
\* denominator TotalInteractions)
SumPct(row) ==
    row.Pct["COMMENT_ISSUE"][1] + row.Pct["COMMENT_PR"][1] + row.Pct["ISSUE_CLOSE"][1]
    + row.Pct["PR_REVIEW"][1] + row.Pct["PR_APPROVAL"][1] + row.Pct["PR_MERGE"][1]

CountOf(c, t) == Cardinality({i \in IntraOf(c) : interactions[i].Type = t})

\* C19: in every row of the function table DominantType is a canonical type whose
\* percentage is maximal, and among several maximal types the first one in the
\* order COMMENT_ISSUE, COMMENT_PR, ISSUE_CLOSE, PR_REVIEW, PR_APPROVAL, PR_MERGE.
C19_DominantTypeFirstMaximum ==
    "analyze_community_function" \in called =>
        \A k \in DOMAIN func_df :
            \E j \in DOMAIN CanonicalTypes :
                LET c == func_df[k].CommunityID
                IN  /\ func_df[k].DominantType = CanonicalTypes[j]
                    /\ \A m \in DOMAIN CanonicalTypes :
                           CountOf(c, CanonicalTypes[m]) <= CountOf(c, CanonicalTypes[j])
                    /\ \A m \in 1..(j - 1) :
                           CountOf(c, CanonicalTypes[m]) < CountOf(c, CanonicalTypes[j])

\* COMMENT_ISSUE and COMMENT_PR share the maximum, the COMMENT_PR record comes
\* first in the log, and COMMENT_ISSUE is reported
C19_Witness ==
    /\ "analyze_community_function" \in called
    /\ Len(interactions) = 2
    /\ interactions[1].Type = "COMMENT_PR"
    /\ \E k \in DOMAIN func_df :
           /\ func_df[k].Pct["COMMENT_PR"] = << 100, 2 >>
           /\ func_df[k].Pct["COMMENT_ISSUE"] = << 100, 2 >>
           /\ func_df[k].DominantType = "COMMENT_ISSUE"

\* C20: the function table has a row for a community exactly when at least one
\* interaction has both endpoints in it; every row has TotalInteractions >= 1, so
\* no zero-filled row is emitted.
C20_RowIffIntraInteraction ==
    "analyze_community_function" \in called =>
        /\ {func_df[k].CommunityID : k \in DOMAIN func_df} =
               {c \in {communities[i].CommunityID : i \in DOMAIN communities} :
                   IntraOf(c) # {}}
        /\ \A j, k \in DOMAIN func_df :
               func_df[j].CommunityID = func_df[k].CommunityID => j = k
        /\ \A k \in DOMAIN func_df :
               /\ func_df[k].TotalInteractions >= 1
               /\ func_df[k].TotalInteractions =
                      Cardinality(IntraOf(func_df[k].CommunityID))

\* a returned table with a row for one community and none for another community,
\* which has members and an interaction leaving it but none inside it
C20_Witness ==
    /\ "analyze_community_function" \in called
    /\ Len(func_df) = 1
    /\ \E i \in DOMAIN communities, j \in DOMAIN interactions :
           /\ communities[i].CommunityID # func_df[1].CommunityID
           /\ IntraOf(communities[i].CommunityID) = {}
           /\ interactions[j].Source = communities[i].Label
           /\ interactions[j].Target \in MembersOf(func_df[1].CommunityID)

\* the community {A, B, C} with D outside it and the log A->B (COMMENT_PR),
\* B->C (COMMENT_PR), C->A (PR_MERGE), A->D (COMMENT_ISSUE)
ExampleLoaded ==
    /\ MembersOf(1) = {"A", "B", "C"}
    /\ \A i \in DOMAIN communities :
           communities[i].CommunityID = 1 \/ communities[i].Label = "D"
    /\ Len(interactions) = 4
    /\ Range(interactions) = Range(ExampleRecords)

\* C21: on that example the cohesion row of the community has IntraEdges = 3,
\* InterEdges = 1, IntraDensity = 3/6 and IntraInterRatio = 3, and its function
\* row has COMMENT_PR = 200/3, PR_MERGE = 100/3, the four other percentages 0 and
\* DominantType = COMMENT_PR.
C21_WorkedExample ==
    ExampleLoaded =>
        /\ "analyze_community_cohesion" \in called =>
               \E k \in DOMAIN stats_df :
                   /\ stats_df[k].CommunityID = 1
                   /\ stats_df[k].Size = 3
                   /\ stats_df[k].IntraEdges = 3
                   /\ stats_df[k].InterEdges = 1
                   /\ stats_df[k].IntraDensity = << 3, 6 >>
                   /\ stats_df[k].IntraInterRatio = << 3, 1 >>
        /\ "analyze_community_function" \in called =>
               \E k \in DOMAIN func_df :
                   /\ func_df[k].CommunityID = 1
                   /\ func_df[k].TotalInteractions = 3
                   /\ func_df[k].Pct["COMMENT_PR"] = << 200, 3 >>
                   /\ func_df[k].Pct["PR_MERGE"] = << 100, 3 >>
                   /\ \A t \in Range(CanonicalTypes) \ {"COMMENT_PR", "PR_MERGE"} :
                          func_df[k].Pct[t][1] = 0
                   /\ func_df[k].DominantType = "COMMENT_PR"

\* both analyses have returned on the example, in the order of the log as written
C21_Witness ==
    /\ ExampleLoaded
    /\ interactions = ExampleRecords
    /\ {"analyze_community_cohesion", "analyze_community_function"} \subseteq called
    /\ \E k \in DOMAIN stats_df : stats_df[k].IntraDensity = << 3, 6 >>
    /\ \E k \in DOMAIN func_df : func_df[k].DominantType = "COMMENT_PR"

\* C27: a community with at least one intra interaction, none of them of a
\* canonical type, still has its row in the function table, with the six
\* percentages 0 and DominantType = COMMENT_ISSUE.
C27_NoCanonicalTypeRow ==
    "analyze_community_function" \in called =>
        \A i \in DOMAIN communities :
            LET c == communities[i].CommunityID
            IN  (/\ IntraOf(c) # {}
                 /\ \A j \in IntraOf(c) : interactions[j].Type \notin Range(CanonicalTypes))
                => \E k \in DOMAIN func_df :
                       /\ func_df[k].CommunityID = c
                       /\ func_df[k].TotalInteractions = Cardinality(IntraOf(c))
                       /\ \A t \in Range(CanonicalTypes) : func_df[k].Pct[t][1] = 0
                       /\ func_df[k].DominantType = "COMMENT_ISSUE"

\* a returned table with the row of a community whose two intra interactions
\* both have another type
C27_Witness ==
    /\ "analyze_community_function" \in called
    /\ \E k \in DOMAIN func_df :
           /\ func_df[k].TotalInteractions = 2
           /\ \A j \in IntraOf(func_df[k].CommunityID) : interactions[j].Type = "OTHER"
           /\ SumPct(func_df[k]) = 0
           /\ func_df[k].DominantType = "COMMENT_ISSUE"

\* no community of the table has an interaction with both endpoints in it
NoIntraInteraction ==
    \A i \in DOMAIN communities : IntraOf(communities[i].CommunityID) = {}

\* C28 as stated: when no community has an intra interaction, a call of
\* analyze_community_function returns without error and its table has no rows.
C28_NoIntraGivesEmptyTable ==
    [][(NoIntraInteraction /\ AnalyzeCommunityFunction) =>
           /\ error' = "none"
           /\ "analyze_community_function" \in called'
           /\ func_df' = << >>]_vars

\* the sum of a column of a table
RECURSIVE SumColumn(_, _)
SumColumn(rows, col) ==
    IF Len(rows) = 0 THEN 0
    ELSE rows[1][col] + SumColumn(SubSeq(rows, 2, Len(rows)), col)

----------------------------------------------------------------------------
(* Properties of table_role_classification, checked under SpecTables *)

RoleRank == [r \in Roles |-> CASE r = "Core" -> 1 [] r = "Connector" -> 2
                                [] r = "Intermediate" -> 3 [] r = "Peripheral" -> 4]

\* C22: the table of table_role_classification is a permutation of the rows of
\* the role table, no row added, dropped or changed in Role, ordered by role rank
\* Core, Connector, Intermediate, Peripheral and within a role by descending
\* PageRank.
C22_SortedPermutation ==
    "table_role_classification" \in called =>
        /\ Len(table8) = Len(role_data)
        /\ \E p \in Orderings(Len(role_data)) :
               \A i \in DOMAIN role_data :
                   /\ table8[i]["Vertex"] = role_data[p[i]].Vertex
                   /\ table8[i]["Papel"] = role_data[p[i]].Role
                   /\ table8[i]["Degree"] = role_data[p[i]].DegreeCentrality
                   /\ table8[i]["Betweenness"] = role_data[p[i]].BetweennessCentrality
                   /\ table8[i]["PageRank"] = role_data[p[i]].PageRank
                   /\ table8[i]["Bridging Strength"] = role_data[p[i]].BridgingStrength
        /\ \A i, j \in DOMAIN table8 :
               i < j =>
                   \/ RoleRank[table8[i]["Papel"]] < RoleRank[table8[j]["Papel"]]
                   \/ /\ table8[i]["Papel"] = table8[j]["Papel"]
                      /\ table8[i]["PageRank"] >= table8[j]["PageRank"]

\* a role table whose last row is Core and whose first two rows share a role,
\* the lower PageRank first: the output reverses it
C22_Witness ==
    /\ "table_role_classification" \in called
    /\ Len(role_data) = 3
    /\ role_data[3].Role = "Core"
    /\ role_data[1].Role = role_data[2].Role
    /\ role_data[1].PageRank < role_data[2].PageRank
    /\ table8[1]["Vertex"] = 3 /\ table8[2]["Vertex"] = 2 /\ table8[3]["Vertex"] = 1

----------------------------------------------------------------------------
(* Further properties of classify_roles, checked under SpecRoles *)

\* C23 as stated: with 1, 2 or 3 vertices in the centrality table classify_roles
\* does not fail, gives every vertex a role, and logs a degenerate-threshold
\* warning.
C23_SmallTableWarns ==
    (Classified /\ Len(centrality) \in 1..3) =>
        /\ error = "none"
        /\ \A i \in DOMAIN centrality :
               \E k \in DOMAIN role_data :
                   role_data[k].Vertex = centrality[i].Vertex /\ role_data[k].Role \in Roles
        /\ "degenerate-threshold warning" \in printed

\* C24: a classify_roles call leaves the loaded centrality table and the loaded
\* bridging table as they were (same rows, same columns, same values); Role and
\* BridgingStrength are added to the returned copy only.
C24_LoadedTablesUnchanged ==
    [][/\ centrality' = centrality
       /\ centrality_cols' = centrality_cols
       /\ bridging' = bridging
       /\ bridging_cols' = bridging_cols]_vars

\* a call has returned a table with the two added columns, made from a bridging
\* table with a matching record, and the centrality table has neither column
C24_Witness ==
    /\ Classified
    /\ Len(role_data) > 0
    /\ \E k \in DOMAIN role_data : role_data[k].BridgingStrength # 0
    /\ \A k \in DOMAIN role_data : role_data[k].Role \in Roles
    /\ bridging # << >>
    /\ {"BridgingStrength", "Role"} \cap centrality_cols = {}
    /\ \A i \in DOMAIN centrality :
           {"BridgingStrength", "Role"} \cap DOMAIN centrality[i] = {}

\* the values of a column of the merged table in ascending order, x[0..n-1]
SortedColumn(col) ==
    LET below(v)   == Cardinality({i \in DOMAIN merged : merged[i][col] < v})
        upto(v)    == Cardinality({i \in DOMAIN merged : merged[i][col] <= v})
        values     == {merged[i][col] : i \in DOMAIN merged}
    IN  [k \in 0..(Len(merged) - 1) |->
            CHOOSE v \in values : below(v) <= k /\ k < upto(v)]

\* four times the quartile at p = num/4 of a column of the merged table, by the
\* formula x[floor h] + (h - floor h) * (x[ceil h] - x[floor h]), h = (n-1) * p
InterpolatedQuartile(col, num) ==
    LET x     == SortedColumn(col)
        h4    == (Len(merged) - 1) * num
        floor == h4 \div 4
        ceil  == IF h4 % 4 = 0 THEN floor ELSE floor + 1
    IN  4 * x[floor] + (h4 - 4 * floor) * (x[ceil] - x[floor])

\* C26: the five thresholds of classify_roles are the linearly interpolated
\* quartiles of the columns over all rows of the merged table, and so Q1 <= Q3
\* for the degree and for PageRank.
C26_ThresholdsInterpolated ==
    (Classified /\ Len(merged) > 0) =>
        /\ quartiles.q1_degree = InterpolatedQuartile("DegreeCentrality", 1)
        /\ quartiles.q3_degree = InterpolatedQuartile("DegreeCentrality", 3)
        /\ quartiles.q1_pr = InterpolatedQuartile("PageRank", 1)
        /\ quartiles.q3_pr = InterpolatedQuartile("PageRank", 3)
        /\ quartiles.q3_betweenness = InterpolatedQuartile("BetweennessCentrality", 3)
        /\ quartiles.q1_degree <= quartiles.q3_degree
        /\ quartiles.q1_pr <= quartiles.q3_pr

\* two rows with degrees 1 and 0: h = 1/4 and 3/4, the quartiles 0.25 and 0.75
\* lie between the two values
C26_Witness ==
    /\ Classified
    /\ Len(merged) = 2
    /\ merged[1].DegreeCentrality = 1 /\ merged[2].DegreeCentrality = 0
    /\ quartiles.q1_degree = 1 /\ quartiles.q3_degree = 3

----------------------------------------------------------------------------
(* Properties of fix_decimal_separators, checked under SpecFix *)

\* position i of the content before the call holds a comma between two digits
CommaBetweenDigits(i) ==
    /\ 1 < i /\ i < Len(csv_backup)
    /\ csv_backup[i] = ","
    /\ digit(csv_backup[i - 1]) /\ digit(csv_backup[i + 1])

\* C25 as stated: after fix_decimal_separators every comma of the original
\* content that stood between two digits is a dot, every other character is
\* unchanged, the length is unchanged, and the backup holds the content the file
\* had before the call (csv_backup is that content).
C25_EveryDecimalCommaFixed ==
    "fix_decimal_separators" \in called =>
        /\ Len(csv_content) = Len(csv_backup)
        /\ \A i \in DOMAIN csv_backup :
               csv_content[i] = IF CommaBetweenDigits(i) THEN "." ELSE csv_backup[i]

====
